---- MODULE Spec2Model ----
(***************************************************************************)
(* A state-machine model of analysis.py: the script that synthesises a     *)
(* monthly passengers series, caches it in data/flights.csv, loads it      *)
(* back, cleans and summarises it, shows four charts and prints findings.  *)
(*                                                                         *)
(* Text is modelled as sequences of tokens: a decimal digit, "-", "," or   *)
(* one whole word (a column name, a month name).  A file is the sequence   *)
(* of its lines.  Real numbers are fixed-point hundredths; a mean is the   *)
(* exact fraction [num, den]; a standard deviation is carried by its       *)
(* square (the sample variance), because the root is irrational.           *)
(***************************************************************************)
EXTENDS Integers, Sequences, FiniteSets, TLC

VARIABLES
    pc,               \* the statement group the interpreter executes next
    runs,             \* how many times the script has been started
    dataDir,          \* whether the directory 'data' exists
    store,            \* the file data/flights.csv (csv_path)
    df0,              \* the Generator's DataFrame (module global, line 60)
    df,               \* the loaded / cleaned DataFrame (module global)
    avg_by_year,      \* the yearly summary (module global)
    console,          \* what print() has written, in order
    charts,           \* the figures plt.show() has displayed, in order
    viewer,           \* the figure whose window is open (plt.show blocks)
    error,            \* the uncaught exception that ended the run
    externalTouched   \* whether another process deleted the store this run

vars == <<pc, runs, dataDir, store, df0, df, avg_by_year, console, charts,
          viewer, error, externalTouched>>

(***************************************************************************)
(* Bounds of the model.                                                    *)
(***************************************************************************)
MaxRuns == 2
MaxSeed == 3

(***************************************************************************)
(* The script's constants.                                                 *)
(***************************************************************************)
StartYear == 2000
StartMonth == 1
EndYear == 2025
EndMonth == 12
base == 200
trend_per_month_x100 == 250
seasonal_amplitude == 80
noise_std == 20
HistBins == 20

None == [none |-> TRUE]

MonthNames ==
    <<"January", "February", "March", "April", "May", "June", "July",
      "August", "September", "October", "November", "December">>

\* 10000 * sin(2*pi*k/12) for k = 0..11, truncated toward zero
SinTable ==
    <<0, 5000, 8660, 10000, 8660, 5000, 0, -5000, -8660, -10000, -8660, -5000>>

Digits == <<"0", "1", "2", "3", "4", "5", "6", "7", "8", "9">>

csv_path == <<"data", "flights.csv">>

(***************************************************************************)
(* Cells and frames.  A cell is an integer, a string (its tokens) or NaN.  *)
(***************************************************************************)
IntCell(n) == [k |-> "int", n |-> n, s |-> <<>>]
StrCell(s) == [k |-> "str", n |-> 0, s |-> s]
NaNCell == [k |-> "nan", n |-> 0, s |-> <<>>]

Range(f) == {f[i] : i \in DOMAIN f}

ColIndex(frame, name) ==
    IF \E i \in 1..Len(frame.columns) : frame.columns[i] = name
    THEN CHOOSE i \in 1..Len(frame.columns) :
             /\ frame.columns[i] = name
             /\ \A j \in 1..(i - 1) : frame.columns[j] # name
    ELSE 0

Shape(frame) == <<Len(frame.rows), Len(frame.columns)>>

(***************************************************************************)
(* pd.date_range(start, end, freq='MS'): month starts from start to end.   *)
(***************************************************************************)
MonthStart(y, m) == [year |-> y, month |-> m]

DateLE(a, b) == a.year < b.year \/ (a.year = b.year /\ a.month <= b.month)

NextMonthStart(d) ==
    IF d.month = 12 THEN MonthStart(d.year + 1, 1)
    ELSE MonthStart(d.year, d.month + 1)

\* d advanced by k month-start offsets (NextMonthStart applied k times); the
\* first half of the steps is evaluated before the second half is taken
RECURSIVE Advance(_, _)
Advance(d, k) ==
    IF k = 0 THEN d
    ELSE IF k = 1 THEN NextMonthStart(d)
    ELSE LET half == Advance(d, k \div 2)
         IN  IF half.month \in 1..12
             THEN Advance(half, k - k \div 2)
             ELSE half

\* no range of month starts from start to end is longer than this
MaxSteps(start, end) == 12 * (end.year - start.year + 1)

date_range_excl(start, end) ==
    LET n == Cardinality({k \in 1..MaxSteps(start, end) :
                             DateLE(Advance(start, k), end)})
    IN  [i \in 1..n |-> Advance(start, i - 1)]

\* the generator loop: cur = start; while cur <= end: yield cur; cur += 1 month
date_range(start, end) ==
    LET n == Cardinality({k \in 0..MaxSteps(start, end) :
                             DateLE(Advance(start, k), end)})
    IN  [i \in 1..n |-> Advance(start, i - 1)]

dates == date_range(MonthStart(StartYear, StartMonth), MonthStart(EndYear, EndMonth))

(***************************************************************************)
(* The synthetic series, in hundredths; idx counts months from 0.          *)
(***************************************************************************)
trend(idx) == base * 100 + trend_per_month_x100 * idx

seasonal(month) == (seasonal_amplitude * SinTable[month]) \div 100

\* np.random.normal(scale=noise_std): the draws of one unseeded run, as
\* multiples of noise_std in hundredths of a standard deviation.
NoiseZ == <<-1500, -100, 0, 1, 130>>

noise(seed, idx) == noise_std * NoiseZ[((idx * seed + seed) % Len(NoiseZ)) + 1]

\* numpy's round(): to the nearest integer, a tie to the even one
RoundHalfEven(x100) ==
    LET q == x100 \div 100
        r == x100 % 100
    IN  IF r < 50 THEN q
        ELSE IF r > 50 THEN q + 1
        ELSE IF q % 2 = 0 THEN q ELSE q + 1

passengers(seed, idx, month) ==
    RoundHalfEven(trend(idx) + seasonal(month) + noise(seed, idx))

\* lines 60-64; the integer columns are written as int64 (the width of
\* dates.year depends on the pandas release and changes no value)
GenerateFrame(seed) ==
    [columns |-> << <<"year">>, <<"month">>, <<"passengers">> >>,
     dtypes  |-> <<"int64", "object", "int64">>,
     index   |-> <<>>,
     rows    |-> [i \in 1..Len(dates) |->
                    << IntCell(dates[i].year),
                       StrCell(<<MonthNames[dates[i].month]>>),
                       IntCell(passengers(seed, i - 1, dates[i].month)) >>]]

(***************************************************************************)
(* DataFrame.to_csv(path, index=False).                                    *)
(***************************************************************************)
RECURSIVE FormatNat(_)
FormatNat(n) ==
    IF n < 10 THEN <<Digits[n + 1]>>
    ELSE Append(FormatNat(n \div 10), Digits[(n % 10) + 1])

FormatIntUnsigned(n) == IF n < 0 THEN FormatNat(-n) ELSE FormatNat(n)

FormatInt(n) == IF n < 0 THEN <<"-">> \o FormatNat(-n) ELSE FormatNat(n)

FormatCell(c) ==
    IF c.k = "int" THEN FormatInt(c.n)
    ELSE IF c.k = "str" THEN c.s
    ELSE <<>>

RECURSIVE JoinFields(_)
JoinFields(fields) ==
    IF Len(fields) = 0 THEN <<>>
    ELSE IF Len(fields) = 1 THEN fields[1]
    ELSE fields[1] \o <<",">> \o JoinFields(Tail(fields))

to_csv(frame) ==
    [exists |-> TRUE,
     lines  |-> <<JoinFields(frame.columns)>> \o
                [i \in 1..Len(frame.rows) |->
                    JoinFields([j \in 1..Len(frame.rows[i]) |->
                                   FormatCell(frame.rows[i][j])])]]

Absent == [exists |-> FALSE, lines |-> <<>>]

(***************************************************************************)
(* pd.read_csv(path) with the default C parser.                            *)
(***************************************************************************)
NAWords ==
    {"#N/A", "#NA", "<NA>", "N/A", "NA", "NULL", "NaN", "None", "n/a", "nan",
     "null"}

FirstComma(line) ==
    IF \E i \in 1..Len(line) : line[i] = ","
    THEN CHOOSE i \in 1..Len(line) :
             /\ line[i] = ","
             /\ \A j \in 1..(i - 1) : line[j] # ","
    ELSE 0

RECURSIVE SplitLine(_)
SplitLine(line) ==
    LET pos == FirstComma(line)
    IN  IF pos = 0 THEN <<line>>
        ELSE <<SubSeq(line, 1, pos - 1)>> \o
             SplitLine(SubSeq(line, pos + 1, Len(line)))

IsDigit(t) == \E i \in 1..Len(Digits) : Digits[i] = t

DigitValue(t) == (CHOOSE i \in 1..Len(Digits) : Digits[i] = t) - 1

IsNatField(f) == Len(f) >= 1 /\ \A i \in 1..Len(f) : IsDigit(f[i])

IsIntField(f) ==
    /\ Len(f) >= 1
    /\ IF f[1] = "-" THEN IsNatField(Tail(f)) ELSE IsNatField(f)

IsNAField(f) == f = <<>> \/ (Len(f) = 1 /\ f[1] \in NAWords)

RECURSIVE ParseNat(_)
ParseNat(f) ==
    IF Len(f) = 0 THEN 0
    ELSE ParseNat(SubSeq(f, 1, Len(f) - 1)) * 10 + DigitValue(f[Len(f)])

ParseInt(f) == IF f[1] = "-" THEN 0 - ParseNat(Tail(f)) ELSE ParseNat(f)

IsBlankLine(line) == line = <<>>

Max(a, b) == IF a >= b THEN a ELSE b

\* The tokenizer's width check: the header line and the first data line are
\* exempt; every later line may not hold more fields than the line before it
\* (after padding), i.e. than the wider of the header and the first data line.
TooManyFields(fields, width) ==
    \E k \in 2..Len(fields) : Len(fields[k]) > width

\* A short line is padded with empty fields; when the first data line is wider
\* than the header its leading fields are the index, not columns.
RowFields(f, width, ncols) ==
    [j \in 1..ncols |->
        LET p == j + (width - ncols)
        IN  IF p <= Len(f) THEN f[p] ELSE <<>>]

InferDtype(column) ==
    IF Len(column) = 0 THEN "object"
    ELSE IF \A i \in 1..Len(column) : IsIntField(column[i]) THEN "int64"
    ELSE IF \A i \in 1..Len(column) :
                IsIntField(column[i]) \/ IsNAField(column[i]) THEN "float64"
    ELSE "object"

ConvertField(f, dtype) ==
    IF IsNAField(f) THEN NaNCell
    ELSE IF dtype = "object" THEN StrCell(f)
    ELSE IntCell(ParseInt(f))

read_csv(file) ==
    IF ~file.exists THEN [status |-> "FileNotFoundError", frame |-> None]
    ELSE
    LET lines == SelectSeq(file.lines, LAMBDA l : ~IsBlankLine(l))
    IN  IF Len(lines) = 0 THEN [status |-> "EmptyDataError", frame |-> None]
        ELSE
        LET header == SplitLine(lines[1])
            ncols  == Len(header)
            fields == [i \in 1..(Len(lines) - 1) |-> SplitLine(lines[i + 1])]
            width  == IF Len(fields) = 0 THEN ncols
                      ELSE Max(ncols, Len(fields[1]))
        IN  IF TooManyFields(fields, width)
            THEN [status |-> "ParserError", frame |-> None]
            ELSE
            LET raw == [i \in 1..Len(fields) |->
                           RowFields(fields[i], width, ncols)]
                dtypes == [j \in 1..ncols |->
                              InferDtype([i \in 1..Len(raw) |-> raw[i][j]])]
            IN  [status |-> "ok",
                 frame  |-> [columns |-> header,
                             dtypes  |-> dtypes,
                             index   |-> <<>>,
                             rows    |-> [i \in 1..Len(raw) |->
                                            [j \in 1..ncols |->
                                               ConvertField(raw[i][j],
                                                            dtypes[j])]]]]

(***************************************************************************)
(* load_data(path): read_csv with the three except clauses.                *)
(***************************************************************************)
load_data(file) ==
    LET r == read_csv(file)
    IN  IF r.status = "ok"
        THEN [ok |-> TRUE, frame |-> r.frame, type |-> "", kind |-> ""]
        ELSE IF r.status = "FileNotFoundError"
        THEN [ok |-> FALSE, frame |-> None,
              type |-> "FileNotFoundError", kind |-> "NotFound"]
        ELSE IF r.status = "EmptyDataError"
        THEN [ok |-> FALSE, frame |-> None,
              type |-> "ValueError", kind |-> "EmptyData"]
        ELSE [ok |-> FALSE, frame |-> None,
              type |-> "ValueError", kind |-> "ParseError"]

(***************************************************************************)
(* DataFrame.isnull().sum() and DataFrame.dropna().                        *)
(***************************************************************************)
IsComplete(row) == \A j \in 1..Len(row) : row[j].k # "nan"

MissingCounts(frame) ==
    [j \in 1..Len(frame.columns) |->
        Cardinality({i \in 1..Len(frame.rows) : frame.rows[i][j].k = "nan"})]

dropna_first_column(frame) ==
    [frame EXCEPT !.rows = SelectSeq(frame.rows, LAMBDA r : r[1].k # "nan")]

dropna(frame) ==
    [frame EXCEPT !.rows = SelectSeq(frame.rows, IsComplete)]

(***************************************************************************)
(* Series statistics.  Rat is an exact fraction; Mixed is whole + num/den. *)
(***************************************************************************)
Rat(n, d) == [nan |-> FALSE, num |-> n, den |-> d]
NaNRat == [nan |-> TRUE, num |-> 0, den |-> 1]
Mixed(w, n, d) == [nan |-> FALSE, whole |-> w, num |-> n, den |-> d]
NaNMixed == [nan |-> TRUE, whole |-> 0, num |-> 0, den |-> 1]

RECURSIVE SumRange(_, _, _)
SumRange(s, lo, hi) ==
    IF lo > hi THEN 0
    ELSE IF lo = hi THEN s[lo]
    ELSE LET mid == (lo + hi) \div 2
         IN  SumRange(s, lo, mid) + SumRange(s, mid + 1, hi)

SumSeq(s) == SumRange(s, 1, Len(s))

\* the non-null values of a column, in row order
Values(frame, col) ==
    LET kept == SelectSeq(frame.rows, LAMBDA r : r[col].k # "nan")
    IN  [i \in 1..Len(kept) |-> kept[i][col].n]

Sorted(values) == SortSeq(values, LAMBDA a, b : a < b)

mean(values) ==
    IF Len(values) = 0 THEN NaNRat ELSE Rat(SumSeq(values), Len(values))

median(values) ==
    LET s == Sorted(values)
        n == Len(values)
    IN  IF n = 0 THEN NaNRat
        ELSE IF n % 2 = 1 THEN Rat(s[(n + 1) \div 2], 1)
        ELSE Rat(s[n \div 2] + s[n \div 2 + 1], 2)

\* Sample variance (ddof = 1), the square of std, as whole + num/den; the
\* deviations are taken about the integer part of the mean.
variance(values) ==
    LET n == Len(values)
        c == SumSeq(values) \div n
        S == SumSeq([i \in 1..n |-> values[i] - c])
        Q == SumSeq([i \in 1..n |-> (values[i] - c) * (values[i] - c)])
    IN  IF n < 2 THEN NaNMixed
        ELSE Mixed(Q \div (n - 1), (Q % (n - 1)) * n - S * S, n * (n - 1))

\* Series.quantile(k/4) with linear interpolation, as a fraction over 4
quartile(values, k) ==
    LET s  == Sorted(values)
        n  == Len(values)
        lo == ((n - 1) * k) \div 4
        r  == ((n - 1) * k) % 4
    IN  IF n = 0 THEN NaNRat
        ELSE IF r = 0 THEN Rat(4 * s[lo + 1], 4)
        ELSE Rat(4 * s[lo + 1] + r * (s[lo + 2] - s[lo + 1]), 4)

\* Series.describe(): numeric columns get the eight statistics, an object
\* column gets its count and its number of distinct values.
describe(frame, col) ==
    IF frame.dtypes[col] = "object"
    THEN LET kept == SelectSeq(frame.rows, LAMBDA r : r[col].k # "nan")
         IN  [count  |-> Len(kept),
              unique |-> Cardinality({kept[i][col].s : i \in 1..Len(kept)})]
    ELSE LET v == Values(frame, col)
             s == Sorted(v)
         IN  [count |-> Len(v),
              mean  |-> mean(v),
              std   |-> variance(v),
              min   |-> IF Len(v) = 0 THEN NaNRat ELSE Rat(s[1], 1),
              q25   |-> quartile(v, 1),
              q50   |-> quartile(v, 2),
              q75   |-> quartile(v, 3),
              max   |-> IF Len(v) = 0 THEN NaNRat ELSE Rat(s[Len(v)], 1)]

(***************************************************************************)
(* df.groupby('year')['passengers'].agg(['mean','median','std','count'])   *)
(*   .rename(columns={'mean': 'avg', 'std': 'std_dev'}).reset_index()      *)
(***************************************************************************)
\* the distinct keys in order of first appearance (a NaN key forms no group)
GroupKeysUnsorted(frame, by) ==
    LET n      == Len(frame.rows)
        firsts == SelectSeq([i \in 1..n |-> i],
                      LAMBDA i :
                          /\ frame.rows[i][by].k # "nan"
                          /\ \A j \in 1..(i - 1) :
                                 frame.rows[j][by] # frame.rows[i][by])
    IN  [g \in 1..Len(firsts) |-> frame.rows[firsts[g]][by].n]

GroupKeysDescending(frame, by) ==
    SortSeq(GroupKeysUnsorted(frame, by), LAMBDA a, b : a > b)

\* groupby sorts the group keys (sort=True)
GroupKeys(frame, by) == Sorted(GroupKeysUnsorted(frame, by))

GroupValues(frame, by, key, col) ==
    LET members == SelectSeq(frame.rows,
                       LAMBDA r : r[by].k # "nan" /\ r[by].n = key
                                  /\ r[col].k # "nan")
    IN  [i \in 1..Len(members) |-> members[i][col].n]

SummaryColumns == <<"year", "avg", "median", "std_dev", "count">>

groupby_agg(frame, by, col) ==
    LET keys == GroupKeys(frame, by)
    IN  [columns |-> SummaryColumns,
         rows    |-> [g \in 1..Len(keys) |->
                        LET v == GroupValues(frame, by, keys[g], col)
                        IN  [year    |-> keys[g],
                             avg     |-> mean(v),
                             median  |-> median(v),
                             std_dev |-> variance(v),
                             count   |-> Len(v)]]]

(***************************************************************************)
(* pd.to_datetime(df['year'].astype(str) + '-' + df['month'])              *)
(***************************************************************************)
\* Series.astype(str): a float64 column prints with a trailing ".0"
AsStr(c, dtype) ==
    IF c.k = "str" THEN c.s
    ELSE IF dtype = "float64" THEN FormatInt(c.n) \o <<".", "0">>
    ELSE FormatInt(c.n)

DateText(row, yc, mc, dtypes) ==
    [y |-> AsStr(row[yc], dtypes[yc]), m |-> row[mc].s]

MonthNumber(name) ==
    IF \E i \in 1..Len(MonthNames) : MonthNames[i] = name
    THEN CHOOSE i \in 1..Len(MonthNames) : MonthNames[i] = name
    ELSE 0

\* a four-digit year, "-", a full English month name
Parseable(text) ==
    /\ IsNatField(text.y) /\ Len(text.y) = 4
    /\ Len(text.m) = 1 /\ MonthNumber(text.m[1]) # 0

to_datetime(text) == MonthStart(ParseNat(text.y), MonthNumber(text.m[1]))

(***************************************************************************)
(* The files data/flights.csv may hold when the script starts.  Years and  *)
(* passenger counts are integers or missing.                               *)
(***************************************************************************)
Header3 == << "year", ",", "month", ",", "passengers" >>
Header2 == << "year", ",", "month" >>

Y2000 == <<"2", "0", "0", "0">>
Y2001 == <<"2", "0", "0", "1">>

Line(y, m, p) == y \o <<",", m, ",">> \o p

File(lines) == [exists |-> TRUE, lines |-> lines]

ZeroByteFile == File(<<>>)

BlankLinesFile == File(<< <<>>, <<>> >>)

HeaderOnlyFile == File(<<Header3>>)

NoPassengersFile ==
    File(<<Header2, Y2000 \o <<",", "January">>, Y2000 \o <<",", "February">> >>)

ThreeRowFile ==
    File(<<Header3,
           Line(Y2000, "January", <<"2", "1", "0">>),
           Line(Y2000, "February", <<"2", "0", "5">>),
           Line(Y2001, "January", <<"2", "6", "0">>)>>)

UnsortedFile ==
    File(<<Header3,
           Line(Y2001, "March", <<"3", "0", "0">>),
           Line(Y2000, "January", <<"-", "1", "2">>),
           Line(Y2001, "January", <<"2", "6", "1">>),
           <<>>,
           Line(Y2000, "February", <<"7">>)>>)

MissingFieldsFile ==
    File(<<Header3,
           Line(Y2000, "January", <<"2", "1", "0">>),
           Line(Y2000, "February", <<>>),
           Y2000 \o <<",", ",">> \o <<"1", "9", "0">>,
           Y2001 \o <<",", "March">>,
           Line(Y2001, "April", <<"NA">>),
           Line(Y2001, "May", <<"2", "5", "5">>)>>)

DuplicateFile ==
    File(<<Header3,
           Line(Y2000, "January", <<"2", "1", "0">>),
           Line(Y2000, "January", <<"2", "1", "0">>),
           Line(Y2000, "January", <<"9", "9">>),
           Line(Y2001, "January", <<"2", "6", "0">>)>>)

BadMonthFile ==
    File(<<Header3,
           Line(Y2000, "January", <<"2", "1", "0">>),
           Line(Y2000, "Smarch", <<"2", "0", "5">>)>>)

RaggedFile ==
    File(<<Header3,
           Line(Y2000, "January", <<"2", "1", "0">>),
           Line(Y2000, "February", <<"2", "0", "5">>) \o <<",", "7">>,
           Line(Y2001, "January", <<"2", "6", "0">>)>>)

InitialStores ==
    {Absent, ZeroByteFile, BlankLinesFile, HeaderOnlyFile, NoPassengersFile,
     ThreeRowFile, UnsortedFile, MissingFieldsFile, DuplicateFile,
     BadMonthFile, RaggedFile}

(***************************************************************************)
(* The run.                                                                *)
(***************************************************************************)
Out(tag, val) == [tag |-> tag, val |-> val]

Emit(entries) == console' = console \o entries

\* an uncaught exception: the interpreter prints the traceback and exits
RaiseAndContinue(type, kind) ==
    /\ error' = [type |-> type, kind |-> kind]
    /\ pc' = "findings"

Raise(type, kind) ==
    /\ error' = [type |-> type, kind |-> kind]
    /\ pc' = "aborted"

Init ==
    /\ pc = "makedirs"
    /\ runs = 1
    /\ dataDir \in BOOLEAN
    /\ store \in InitialStores
    /\ (~dataDir => store = Absent)
    /\ df0 = None
    /\ df = None
    /\ avg_by_year = None
    /\ console = <<>>
    /\ charts = <<>>
    /\ viewer = "none"
    /\ error = None
    /\ externalTouched = FALSE

\* line 32-33: os.makedirs('data', exist_ok=True)
MakeDirs ==
    /\ pc = "makedirs"
    /\ dataDir' = TRUE
    /\ pc' = "generate"
    /\ UNCHANGED <<runs, store, df0, df, avg_by_year, console, charts, viewer,
                   error, externalTouched>>

StoreAlwaysWritten(file, frame) == to_csv(frame)

StoreNeverWritten(file, frame) == file

\* line 36 and 67: the file is written only if it does not exist
StoreAfterGenerator(file, frame) ==
    IF ~file.exists THEN to_csv(frame) ELSE file

\* lines 36-69
Generator ==
    /\ pc = "generate"
    /\ \E seed \in 1..MaxSeed :
          LET frame == GenerateFrame(seed)
          IN  /\ store' = StoreAfterGenerator(store, frame)
              /\ IF ~store.exists
                 THEN /\ df0' = frame
                      /\ Emit(<<Out("generating", csv_path),
                                 Out("generated",
                                     <<Len(frame.rows), dates[1],
                                       dates[Len(dates)]>>)>>)
                 ELSE UNCHANGED <<df0, console>>
    /\ pc' = "load"
    /\ UNCHANGED <<runs, dataDir, df, avg_by_year, charts, viewer, error,
                   externalTouched>>

\* another process removes the file after line 36/67 and before line 80
ExternalDelete ==
    /\ pc = "load"
    /\ store.exists
    /\ ~externalTouched
    /\ store' = Absent
    /\ externalTouched' = TRUE
    /\ UNCHANGED <<pc, runs, dataDir, df0, df, avg_by_year, console, charts,
                   viewer, error>>

\* lines 75-91
LoadData ==
    /\ pc = "load"
    /\ LET r == load_data(store)
       IN  IF r.ok
           THEN /\ df' = r.frame
                /\ Emit(<<Out("loaded", Shape(r.frame))>>)
                /\ pc' = "inspect"
                /\ UNCHANGED error
           ELSE /\ Raise(r.type, r.kind)
                /\ UNCHANGED <<df, console>>
    /\ UNCHANGED <<runs, dataDir, store, df0, avg_by_year, charts, viewer,
                   externalTouched>>

InspectOutput(frame) ==
    <<Out("head_title", <<>>),
      Out("head", SubSeq(frame.rows, 1, IF Len(frame.rows) < 5
                                        THEN Len(frame.rows) ELSE 5)),
      Out("info_title", <<>>),
      Out("info", <<Shape(frame), frame.columns, frame.dtypes>>),
      Out("missing_title", <<>>),
      Out("missing", MissingCounts(frame))>>

\* lines 94-101
Inspect ==
    /\ pc = "inspect"
    /\ Emit(InspectOutput(df))
    /\ pc' = "clean"
    /\ UNCHANGED <<runs, dataDir, store, df0, df, avg_by_year, charts, viewer,
                   error, externalTouched>>

\* lines 104-105
Clean ==
    /\ pc = "clean"
    /\ df' = dropna(df)
    /\ Emit(<<Out("cleaned", Shape(dropna(df)))>>)
    /\ pc' = "describe"
    /\ UNCHANGED <<runs, dataDir, store, df0, avg_by_year, charts, viewer,
                   error, externalTouched>>

\* lines 112-113
Describe ==
    /\ pc = "describe"
    /\ LET col == ColIndex(df, <<"passengers">>)
       IN  IF col = 0
           THEN /\ Emit(<<Out("describe_title", <<>>)>>)
                /\ Raise("KeyError", "Unclassified")
           ELSE /\ Emit(<<Out("describe_title", <<>>),
                           Out("describe", describe(df, col))>>)
                /\ pc' = "groupby"
                /\ UNCHANGED error
    /\ UNCHANGED <<runs, dataDir, store, df0, df, avg_by_year, charts, viewer,
                   externalTouched>>

\* lines 116-124; the aggregation of a column of strings raises, and whether
\* it does on a column with no row at all depends on the pandas release
GroupByYear ==
    /\ pc = "groupby"
    /\ LET by  == ColIndex(df, <<"year">>)
           col == ColIndex(df, <<"passengers">>)
       IN  \/ /\ by # 0 /\ col # 0
              /\ df.dtypes[col] # "object" \/ Len(df.rows) = 0
              /\ avg_by_year' = groupby_agg(df, by, col)
              /\ Emit(<<Out("summary_title", <<>>),
                         Out("summary", groupby_agg(df, by, col))>>)
              /\ pc' = "observe"
              /\ UNCHANGED error
           \/ /\ by = 0 \/ col = 0 \/ df.dtypes[col] = "object"
              /\ Raise(IF by = 0 \/ col = 0 THEN "KeyError" ELSE "TypeError",
                       "Unclassified")
              /\ UNCHANGED <<avg_by_year, console>>
    /\ UNCHANGED <<runs, dataDir, store, df0, df, charts, viewer,
                   externalTouched>>

\* lines 127-128
Observe ==
    /\ pc = "observe"
    /\ Emit(<<Out("observation_avg", <<>>), Out("observation_std", <<>>)>>)
    /\ pc' = "dates"
    /\ UNCHANGED <<runs, dataDir, store, df0, df, avg_by_year, charts, viewer,
                   error, externalTouched>>

\* lines 135-136
DeriveDates ==
    /\ pc = "dates"
    /\ LET yc == ColIndex(df, <<"year">>)
           mc == ColIndex(df, <<"month">>)
           text == [i \in 1..Len(df.rows) |->
                       DateText(df.rows[i], yc, mc, df.dtypes)]
       IN  IF yc = 0 \/ mc = 0
           THEN /\ Raise("KeyError", "Unclassified")
                /\ UNCHANGED df
           ELSE IF Len(df.rows) > 0 /\ df.dtypes[mc] # "object"
           THEN /\ Raise("TypeError", "Unclassified")
                /\ UNCHANGED df
           ELSE IF \E i \in 1..Len(text) : ~Parseable(text[i])
           THEN /\ Raise("DateParseError", "Unclassified")
                /\ UNCHANGED df
           ELSE /\ df' = [df EXCEPT !.index =
                             [i \in 1..Len(text) |-> to_datetime(text[i])]]
                /\ pc' = "line"
                /\ UNCHANGED error
    /\ UNCHANGED <<runs, dataDir, store, df0, avg_by_year, console, charts,
                   viewer, externalTouched>>

(***************************************************************************)
(* The four figures.  plt.show() opens the window and returns when it is   *)
(* closed.                                                                 *)
(***************************************************************************)
Figure(kind, title, points) == [kind |-> kind, title |-> title, points |-> points]

ShowFigure(stage, figure) ==
    /\ pc = stage
    /\ viewer = "none"
    /\ charts' = Append(charts, figure)
    /\ viewer' = figure.kind
    /\ UNCHANGED <<pc, runs, dataDir, store, df0, df, avg_by_year, console,
                   error, externalTouched>>

\* lines 139-145
LineChart ==
    ShowFigure("line",
        Figure("line", "Synthetic Monthly Passengers (2000-2025)",
               Len(df.index)))

\* lines 148-155
BarChart ==
    ShowFigure("bar",
        Figure("bar", "Average Monthly Passengers by Year (2000-2025)",
               Len(avg_by_year.rows)))

\* lines 158-164
Histogram ==
    ShowFigure("hist",
        Figure("hist", "Histogram of Monthly Passenger Counts", HistBins))

\* lines 167-174
ScatterPlot ==
    ShowFigure("scatter",
        Figure("scatter", "Scatter Plot: Year vs. Monthly Passengers",
               Len(df.rows)))

NextStage(kind) ==
    IF kind = "line" THEN "bar"
    ELSE IF kind = "bar" THEN "hist"
    ELSE IF kind = "hist" THEN "scatter"
    ELSE "findings"

\* the user closes the window and plt.show() returns
DismissChart ==
    /\ viewer # "none"
    /\ pc' = NextStage(viewer)
    /\ viewer' = "none"
    /\ UNCHANGED <<runs, dataDir, store, df0, df, avg_by_year, console, charts,
                   error, externalTouched>>

FindingsOutputShort ==
    <<Out("findings_header", <<>>),
      Out("finding_1", <<>>),
      Out("finding_2", <<>>),
      Out("findings_footer", <<>>)>>

\* lines 180-184
FindingsOutput ==
    <<Out("findings_header", <<>>),
      Out("finding_1", <<>>),
      Out("finding_2", <<>>),
      Out("finding_3", <<>>),
      Out("findings_footer", <<>>)>>

Findings ==
    /\ pc = "findings"
    /\ Emit(FindingsOutput)
    /\ pc' = "done"
    /\ UNCHANGED <<runs, dataDir, store, df0, df, avg_by_year, charts, viewer,
                   error, externalTouched>>

\* the script is started again: a new process, the same file system
Restart ==
    /\ pc \in {"done", "aborted"}
    /\ runs < MaxRuns
    /\ runs' = runs + 1
    /\ pc' = "makedirs"
    /\ df0' = None
    /\ df' = None
    /\ avg_by_year' = None
    /\ console' = <<>>
    /\ charts' = <<>>
    /\ viewer' = "none"
    /\ error' = None
    /\ externalTouched' = FALSE
    /\ UNCHANGED <<dataDir, store>>

Next ==
    \/ MakeDirs
    \/ Generator
    \/ ExternalDelete
    \/ LoadData
    \/ Inspect
    \/ Clean
    \/ Describe
    \/ GroupByYear
    \/ Observe
    \/ DeriveDates
    \/ LineChart
    \/ BarChart
    \/ Histogram
    \/ ScatterPlot
    \/ DismissChart
    \/ Findings
    \/ Restart

Spec == Init /\ [][Next]_vars

(***************************************************************************)
(* Properties.                                                             *)
(***************************************************************************)
BeforeLoad == {"makedirs", "generate", "load"}

BeforeCleaned == BeforeLoad \cup {"inspect", "clean"}

LoaderKinds == {"NotFound", "EmptyData", "ParseError"}

Tags(entries) == [i \in 1..Len(entries) |-> entries[i].tag]

Printed(tag) == \E i \in 1..Len(console) : console[i].tag = tag

NonBlankLines(file) == SelectSeq(file.lines, LAMBDA l : ~IsBlankLine(l))

HeaderWithoutPassengers(file) ==
    /\ file.exists
    /\ Len(NonBlankLines(file)) >= 1
    /\ <<"passengers">> \notin Range(SplitLine(NonBlankLines(file)[1]))

NoDataRows(file) == file.exists /\ Len(NonBlankLines(file)) <= 1

\* C1: once the Loader has run on a store whose header has no passengers
\* column, the run has failed in the Loader with ParseError and no table was
\* returned.
C1_MissingColumnIsParseError ==
    (pc \notin BeforeLoad /\ HeaderWithoutPassengers(store)) =>
        (error # None /\ error.kind = "ParseError" /\ df = None)

\* C2: once the Loader has run on a store that exists and holds no data row
\* (zero bytes, blank lines only, or a header only), the run has failed in the
\* Loader with EmptyData and no table was returned.
C2_NoDataRowsIsEmptyData ==
    (pc \notin BeforeLoad /\ NoDataRows(store)) =>
        (error # None /\ error.kind = "EmptyData" /\ df = None)

\* C3: unless another process has deleted it in this run, the store exists
\* when the Loader is about to read it, and a run that ended with NotFound is
\* one in which another process deleted the store.
C3_NotFoundOnlyAfterExternalDelete ==
    /\ (pc = "load" /\ ~externalTouched) => store.exists
    /\ (error # None /\ error.kind = "NotFound") => externalTouched

C3_Witness ==
    pc = "inspect" /\ ~externalTouched /\ df0 # None /\ df # None

\* C4: a Generator step taken while the store exists leaves the store as it
\* is and generates nothing (no frame is built, nothing is printed).
C4_GeneratorIdempotent ==
    [][(pc = "generate" /\ store.exists) =>
           (store' = store /\ df0' = df0 /\ console' = console)]_vars

C4_Witness ==
    /\ runs = 2 /\ pc = "load" /\ ~externalTouched
    /\ df0 = None
    /\ store.exists /\ Len(store.lines) = Len(dates) + 1

YearOf(row) == row[1].n

MonthOf(row) == MonthNumber(row[2].s[1])

\* C5: the generated frame has one row per month from 2000-01 to 2025-12
\* inclusive (312), each row is the calendar month after the row before it,
\* and no (year, month) occurs twice.
C5_GeneratedMonthsContiguous ==
    df0 # None =>
        LET rows == df0.rows
            n    == Len(rows)
        IN  /\ n = 12 * (EndYear - StartYear) + (EndMonth - StartMonth) + 1
            /\ n = 312
            /\ YearOf(rows[1]) = StartYear /\ MonthOf(rows[1]) = StartMonth
            /\ YearOf(rows[n]) = EndYear /\ MonthOf(rows[n]) = EndMonth
            /\ \A i \in 1..(n - 1) :
                  \/ /\ YearOf(rows[i + 1]) = YearOf(rows[i])
                     /\ MonthOf(rows[i + 1]) = MonthOf(rows[i]) + 1
                  \/ /\ YearOf(rows[i + 1]) = YearOf(rows[i]) + 1
                     /\ MonthOf(rows[i]) = 12 /\ MonthOf(rows[i + 1]) = 1
            /\ Cardinality({<<YearOf(rows[i]), MonthOf(rows[i])>> :
                               i \in 1..n}) = n

C5_Witness == df0 # None /\ pc = "load" /\ store.exists

\* C6: in a run in which the Generator wrote the store and nobody deleted it,
\* the Loader returns the Generator's frame: the same columns in the same
\* order, the same number of rows, and the same values in every row.
C6_RoundTrip ==
    (df0 # None /\ ~externalTouched /\ pc \notin BeforeLoad) =>
        /\ error = None
        /\ df # None
        /\ df.columns = << <<"year">>, <<"month">>, <<"passengers">> >>
        /\ df.columns = df0.columns
        /\ Len(df.rows) = Len(df0.rows)
        /\ \A i \in 1..Len(df0.rows) : df.rows[i] = df0.rows[i]

C6_Witness ==
    /\ df0 # None /\ pc = "inspect" /\ df # None
    /\ \E i \in 1..Len(df.rows) : df.rows[i][3].n < 0

RECURSIVE SumOver(_, _, _)
SumOver(rows, col, members) ==
    IF members = {} THEN 0
    ELSE LET i == CHOOSE i \in members : TRUE
         IN  rows[i][col].n + SumOver(rows, col, members \ {i})

\* C7: the yearly summary has exactly one row per year of the cleaned frame,
\* in ascending order of year; each row's count is the number of cleaned rows
\* of that year and its avg is their arithmetic mean; a year with one row has
\* count 1, avg equal to that row's value and an undefined std_dev.  The
\* three-row store gives {2000: 207.5, 2} and {2001: 260, 1}.
C7_YearSummary ==
    avg_by_year # None =>
        LET yc      == ColIndex(df, <<"year">>)
            vc      == ColIndex(df, <<"passengers">>)
            rows    == df.rows
            summary == avg_by_year.rows
            years   == {rows[i][yc].n : i \in 1..Len(rows)}
        IN  /\ {summary[g].year : g \in 1..Len(summary)} = years
            /\ Len(summary) = Cardinality(years)
            /\ \A g \in 1..(Len(summary) - 1) :
                  summary[g].year < summary[g + 1].year
            /\ \A g \in 1..Len(summary) :
                  LET members == {i \in 1..Len(rows) :
                                     rows[i][yc].n = summary[g].year}
                      total   == SumOver(rows, vc, members)
                  IN  /\ summary[g].count = Cardinality(members)
                      /\ ~summary[g].avg.nan
                      /\ summary[g].avg.num * summary[g].count =
                             total * summary[g].avg.den
                      /\ summary[g].count = 1 =>
                            /\ summary[g].std_dev.nan
                            /\ summary[g].avg.num = total * summary[g].avg.den
            /\ store = ThreeRowFile =>
                  /\ Len(summary) = 2
                  /\ summary[1].year = 2000 /\ summary[1].count = 2
                  /\ summary[1].avg.num * 10 = 2075 * summary[1].avg.den
                  /\ summary[2].year = 2001 /\ summary[2].count = 1
                  /\ summary[2].avg.num = 260 * summary[2].avg.den
                  /\ summary[2].std_dev.nan

C7_Witness ==
    /\ avg_by_year # None /\ pc = "observe" /\ store = ThreeRowFile
    /\ Len(avg_by_year.rows) = 2

NoMissing(frame) == \A i \in 1..Len(frame.rows) : IsComplete(frame.rows[i])

YearMonthPairs(frame, rows) ==
    LET yc == ColIndex(frame, <<"year">>)
        mc == ColIndex(frame, <<"month">>)
    IN  {<<rows[i][yc], rows[i][mc]>> : i \in 1..Len(rows)}

UniqueYearMonth(frame, rows) ==
    (ColIndex(frame, <<"year">>) # 0 /\ ColIndex(frame, <<"month">>) # 0) =>
        Cardinality(YearMonthPairs(frame, rows)) = Len(rows)

CompleteRows(frame) == SelectSeq(frame.rows, IsComplete)

\* C8 as stated: for every store the Loader accepts, the cleaned frame has no
\* missing field, keeps every complete row of the loaded table, and has no
\* two rows with the same (year, month).
C8_CleanedRowsUniqueForEveryStore ==
    (pc \notin BeforeCleaned /\ df # None) =>
        LET loaded == read_csv(store).frame
        IN  /\ NoMissing(df)
            /\ df.rows = CompleteRows(loaded)
            /\ UniqueYearMonth(df, df.rows)

\* C8 amended: for every store the Loader accepts, the cleaned frame has no
\* missing field and holds exactly the complete rows of the loaded table, in
\* order (all of them for a freshly generated store); no two of its rows share
\* a (year, month) whenever no two complete rows of the loaded table do.
C8_CleanKeepsExactlyCompleteRows ==
    (pc \notin BeforeCleaned /\ df # None) =>
        LET loaded == read_csv(store).frame
        IN  /\ NoMissing(df)
            /\ df.rows = CompleteRows(loaded)
            /\ df.columns = loaded.columns
            /\ UniqueYearMonth(loaded, CompleteRows(loaded)) =>
                   UniqueYearMonth(df, df.rows)
            /\ df0 # None =>
                   (df.rows = df0.rows /\ UniqueYearMonth(df, df.rows))

C8_Witness ==
    /\ pc = "describe" /\ df # None /\ store = MissingFieldsFile
    /\ Len(df.rows) = 2
    /\ Len(read_csv(store).frame.rows) = 6

\* C9: a run that has raised is over: the interpreter is at no further
\* statement, no figure was shown and the findings were not printed; after a
\* Loader failure there is no table, no statistics and no yearly summary; and
\* nothing more happens in that run (the next step, if any, is a new start).
C9_ErrorsAreFatal ==
    /\ [](error # None =>
            /\ pc = "aborted"
            /\ viewer = "none" /\ charts = <<>>
            /\ ~Printed("findings_header") /\ ~Printed("finding_1")
            /\ ~Printed("finding_2") /\ ~Printed("finding_3")
            /\ error.kind \in LoaderKinds =>
                  /\ df = None /\ avg_by_year = None
                  /\ ~Printed("loaded") /\ ~Printed("describe")
                  /\ ~Printed("summary"))
    /\ [](pc = "aborted" => error # None)
    /\ [][error # None =>
             \/ UNCHANGED <<pc, df, avg_by_year, console, charts, viewer,
                            store, error>>
             \/ (runs' = runs + 1 /\ pc' = "makedirs" /\ error' = None)]_vars

C9_Witness ==
    /\ error # None /\ error.type = "DateParseError" /\ pc = "aborted"
    /\ Printed("summary") /\ charts = <<>>

ReportTags ==
    {"loaded", "missing", "cleaned", "describe", "summary", "finding_1",
     "finding_2", "finding_3"}

Report == SelectSeq(Tags(console), LAMBDA t : t \in ReportTags)

ChartKinds == [i \in 1..Len(charts) |-> charts[i].kind]

ChartsShownOnce ==
    /\ pc = "done" =>
          (ChartKinds = <<"line", "bar", "hist", "scatter">> /\ viewer = "none")
    /\ viewer # "none" =>
          (pc = viewer /\ charts[Len(charts)].kind = viewer)

\* C10 as stated: a finished run has printed, once each and in this order,
\* the shape after loading, the shape after cleaning, the missing-value
\* counts, the statistics, the yearly summary and the three findings; the four
\* figures were shown once each, the script waiting on each open window.
C10_ReportOrderAsStated ==
    /\ pc = "done" =>
          Report = <<"loaded", "cleaned", "missing", "describe", "summary",
                     "finding_1", "finding_2", "finding_3">>
    /\ ChartsShownOnce

\* C10 amended: a finished run has printed, once each and in this order, the
\* shape after loading, the missing-value counts, the shape after cleaning,
\* the statistics, the yearly summary and the three findings; the four
\* figures were shown once each (line, bar, histogram, scatter), the script
\* waiting on each open window.
C10_ReportOrder ==
    /\ pc = "done" =>
          Report = <<"loaded", "missing", "cleaned", "describe", "summary",
                     "finding_1", "finding_2", "finding_3">>
    /\ ChartsShownOnce

C10_Witness ==
    pc = "done" /\ Len(charts) = 4 /\ Printed("finding_3") /\ df0 # None

====
